---- MODULE Spec2Model ----
(***************************************************************************)
(* A model of the Bright JS client (nnstd/bright-js): the error taxonomy   *)
(* of errors.ts (createBrightError and the BrightError class hierarchy),   *)
(* the typed query compiler of index.ts (buildQueryFromFilters) and the    *)
(* request executor of BrightClient (request, indexExists, ingressExists). *)
(*                                                                         *)
(* JavaScript values are records tagged by their typeof; a JavaScript      *)
(* string is a sequence of symbols, a symbol being one character or, for   *)
(* the long literals the code only ever compares (error codes, messages),  *)
(* the whole literal.                                                      *)
(***************************************************************************)
EXTENDS Integers, Sequences, FiniteSets

VARIABLES
    clsStatus,      \* createBrightError: the statusCode argument
    clsEnvelope,    \* createBrightError: the errorResponse argument
    clsResult,      \* createBrightError: its completion, NoResult before the call
    qFilter,        \* buildQueryFromFilters: the filter argument
    qRange,         \* buildQueryFromFilters: the range argument
    qResult,        \* buildQueryFromFilters: the returned string, NoResult before
    fName,          \* field(): the name argument
    fValue,         \* field(): the value argument
    fBoost,         \* field(): the boost argument
    fResult,        \* field(): the returned string, NoResult before the call
    sParams,        \* search(): the params argument
    sRequest,       \* search(): what it passes to request(), NoResult before
    client,         \* the BrightClient instance: baseUrl, apiKey, fetchFn
    calls,          \* the calls in progress on the client, by call id
    handle          \* the object index(indexId) returned, NoResult before

vars == <<clsStatus, clsEnvelope, clsResult, qFilter, qRange, qResult,
          fName, fValue, fBoost, fResult, sParams, sRequest, client, calls, handle>>

clsVars == <<clsStatus, clsEnvelope, clsResult>>
qVars == <<qFilter, qRange, qResult, fName, fValue, fBoost, fResult, sParams, sRequest>>
reqVars == <<client, calls, handle>>

(***************************************************************************)
(* JavaScript values                                                       *)
(***************************************************************************)
Undefined == [t |-> "undefined"]
Null == [t |-> "null"]
Num(n) == [t |-> "number", n |-> n]
Bool(b) == [t |-> "boolean", b |-> b]
Str(s) == [t |-> "string", s |-> s]
\* An object is the sequence of its own enumerable properties in
\* Object.entries order; the keys of one object are distinct.
Obj(entries) == [t |-> "object", entries |-> entries]
Prop(k, v) == [k |-> k, v |-> v]

\* A literal the code never takes apart, as a one-symbol string.
Lit(s) == <<s>>

NoResult == [t |-> "none"]

HasProp(o, k) ==
    /\ o.t = "object"
    /\ \E i \in 1..Len(o.entries) : o.entries[i].k = k

\* o.k (also 'const {k} = o' and 'o?.k' on a defined o): undefined when the
\* property is missing or o is a primitive without that property.
Get(o, k) ==
    IF HasProp(o, k)
    THEN LET i == CHOOSE j \in 1..Len(o.entries) : o.entries[j].k = k
         IN o.entries[i].v
    ELSE Undefined

\* ToBoolean, as 'if (x)' and 'x ? a : b' apply it.
ToBoolean(v) ==
    CASE v.t = "undefined" -> FALSE
      [] v.t = "null" -> FALSE
      [] v.t = "boolean" -> v.b
      [] v.t = "number" -> v.n # 0
      [] v.t = "string" -> v.s # <<>>
      [] OTHER -> TRUE

Digit(d) ==
    CASE d = 0 -> "0" [] d = 1 -> "1" [] d = 2 -> "2" [] d = 3 -> "3"
      [] d = 4 -> "4" [] d = 5 -> "5" [] d = 6 -> "6" [] d = 7 -> "7"
      [] d = 8 -> "8" [] d = 9 -> "9"

RECURSIVE NatToString(_)
NatToString(n) ==
    IF n < 10 THEN <<Digit(n)>>
    ELSE NatToString(n \div 10) \o <<Digit(n % 10)>>

\* Number.prototype.toString for the integers.
NumberToString(n) ==
    IF n < 0 THEN <<"-">> \o NatToString(0 - n) ELSE NatToString(n)

\* ToString, as String(x) and a template literal `${x}` apply it.
ToString(v) ==
    CASE v.t = "undefined" -> <<"u", "n", "d", "e", "f", "i", "n", "e", "d">>
      [] v.t = "null" -> <<"n", "u", "l", "l">>
      [] v.t = "boolean" -> IF v.b THEN <<"t", "r", "u", "e">>
                            ELSE <<"f", "a", "l", "s", "e">>
      [] v.t = "number" -> NumberToString(v.n)
      [] v.t = "string" -> v.s
      [] OTHER -> Lit("[object Object]")

(***************************************************************************)
(* errors.ts: the error classes.  An error value carries the name its      *)
(* constructor set, the prototype Object.setPrototypeOf set (what          *)
(* instanceof reads) and the public fields.                                *)
(***************************************************************************)
ErrorCode ==
    { "MISSING_PARAMETER", "INVALID_PARAMETER", "INVALID_REQUEST_BODY",
      "CONFLICTING_PARAMETERS", "INVALID_FORMAT", "PARSE_ERROR",
      "INDEX_NOT_FOUND", "DOCUMENT_NOT_FOUND",
      "NOT_LEADER", "CLUSTER_UNAVAILABLE",
      "INSUFFICIENT_PERMISSIONS", "LEADER_ONLY_OPERATION",
      "RESOURCE_ALREADY_EXISTS",
      "UUID_GENERATION_FAILED", "SERIALIZATION_FAILED", "RAFT_APPLY_FAILED",
      "INDEX_OPERATION_FAILED", "DOCUMENT_OPERATION_FAILED",
      "BATCH_OPERATION_FAILED", "SEARCH_FAILED", "INTERNAL_ERROR" }

\* The 'extends' clause of each class.
SuperClass(c) ==
    CASE c \in {"MissingParameterError", "InvalidParameterError",
                "InvalidRequestBodyError", "ConflictingParametersError",
                "InvalidFormatError", "ParseError"} -> "ValidationError"
      [] c \in {"IndexNotFoundError", "DocumentNotFoundError"} -> "NotFoundError"
      [] c \in {"NotLeaderError", "ClusterUnavailableError"} -> "ClusterError"
      [] c \in {"InsufficientPermissionsError", "LeaderOnlyOperationError"}
            -> "AuthorizationError"
      [] c = "ResourceAlreadyExistsError" -> "ConflictError"
      [] c \in {"UuidGenerationFailedError", "SerializationFailedError",
                "RaftApplyFailedError", "IndexOperationFailedError",
                "DocumentOperationFailedError", "BatchOperationFailedError",
                "SearchFailedError"} -> "InternalError"
      [] c \in {"ValidationError", "NotFoundError", "ClusterError",
                "AuthorizationError", "ConflictError", "InternalError"}
            -> "BrightError"
      [] c \in {"BrightError", "TypeError", "SyntaxError"} -> "Error"
      [] OTHER -> "Object"

RECURSIVE ProtoChain(_)
ProtoChain(c) ==
    IF c = "Object" THEN {c} ELSE {c} \cup ProtoChain(SuperClass(c))

\* e instanceof C
InstanceOf(e, C) == C \in ProtoChain(e.proto)

\* new Error(message): the message property is ToString(message), and the
\* inherited empty string when message is undefined.
ErrorMessage(message) ==
    IF message = Undefined THEN Str(<<>>) ELSE Str(ToString(message))

\* The subclass constructors' 'this.name = N; Object.setPrototypeOf(this, N.prototype)'.
Named(e, n) == [e EXCEPT !.name = n, !.proto = n]

BrightError(message, statusCode, code, details) ==
    [ name |-> "BrightError", proto |-> "BrightError",
      message |-> ErrorMessage(message), code |-> code,
      statusCode |-> statusCode, details |-> details,
      leaderUrl |-> Undefined ]

ValidationError(message, code, details) ==
    Named(BrightError(message, Num(400), code, details), "ValidationError")

MissingParameterError(message, details) ==
    Named(ValidationError(message, Str(Lit("MISSING_PARAMETER")), details),
          "MissingParameterError")

InvalidParameterError(message, details) ==
    Named(ValidationError(message, Str(Lit("INVALID_PARAMETER")), details),
          "InvalidParameterError")

InvalidRequestBodyError(message, details) ==
    Named(ValidationError(message, Str(Lit("INVALID_REQUEST_BODY")), details),
          "InvalidRequestBodyError")

ConflictingParametersError(message, details) ==
    Named(ValidationError(message, Str(Lit("CONFLICTING_PARAMETERS")), details),
          "ConflictingParametersError")

InvalidFormatError(message, details) ==
    Named(ValidationError(message, Str(Lit("INVALID_FORMAT")), details),
          "InvalidFormatError")

ParseError(message, details) ==
    Named(ValidationError(message, Str(Lit("PARSE_ERROR")), details),
          "ParseError")

NotFoundError(message, code, details) ==
    Named(BrightError(message, Num(404), code, details), "NotFoundError")

\* Mutant: the constructor passes its sibling's code to super().
IndexNotFoundError_SiblingCode(message, details) ==
    Named(NotFoundError(message, Str(Lit("DOCUMENT_NOT_FOUND")), details),
          "IndexNotFoundError")

IndexNotFoundError(message, details) ==
    Named(NotFoundError(message, Str(Lit("INDEX_NOT_FOUND")), details),
          "IndexNotFoundError")

\* Mutant: the constructor does not pass its details to super().
DocumentNotFoundError_NoDetails(message, details) ==
    Named(NotFoundError(message, Str(Lit("DOCUMENT_NOT_FOUND")), Undefined),
          "DocumentNotFoundError")

DocumentNotFoundError(message, details) ==
    Named(NotFoundError(message, Str(Lit("DOCUMENT_NOT_FOUND")), details),
          "DocumentNotFoundError")

ClusterError(message, statusCode, code, details) ==
    Named(BrightError(message, statusCode, code, details), "ClusterError")

\* Mutant: the constructor does not keep its leaderUrl argument.
NotLeaderError_NoLeaderUrl(message, leaderUrl, details) ==
    Named(ClusterError(message, Num(307), Str(Lit("NOT_LEADER")), details),
          "NotLeaderError")

NotLeaderError(message, leaderUrl, details) ==
    [ Named(ClusterError(message, Num(307), Str(Lit("NOT_LEADER")), details),
            "NotLeaderError") EXCEPT !.leaderUrl = leaderUrl ]

\* Mutant: the constructor passes its sibling's status to super().
ClusterUnavailableError_Status307(message, details) ==
    Named(ClusterError(message, Num(307), Str(Lit("CLUSTER_UNAVAILABLE")), details),
          "ClusterUnavailableError")

ClusterUnavailableError(message, details) ==
    Named(ClusterError(message, Num(503), Str(Lit("CLUSTER_UNAVAILABLE")), details),
          "ClusterUnavailableError")

AuthorizationError(message, code, details) ==
    Named(BrightError(message, Num(403), code, details), "AuthorizationError")

InsufficientPermissionsError(message, details) ==
    Named(AuthorizationError(message, Str(Lit("INSUFFICIENT_PERMISSIONS")), details),
          "InsufficientPermissionsError")

LeaderOnlyOperationError(message, details) ==
    Named(AuthorizationError(message, Str(Lit("LEADER_ONLY_OPERATION")), details),
          "LeaderOnlyOperationError")

ConflictError(message, code, details) ==
    Named(BrightError(message, Num(409), code, details), "ConflictError")

ResourceAlreadyExistsError(message, details) ==
    Named(ConflictError(message, Str(Lit("RESOURCE_ALREADY_EXISTS")), details),
          "ResourceAlreadyExistsError")

InternalError(message, code, details) ==
    Named(BrightError(message, Num(500), code, details), "InternalError")

UuidGenerationFailedError(message, details) ==
    Named(InternalError(message, Str(Lit("UUID_GENERATION_FAILED")), details),
          "UuidGenerationFailedError")

SerializationFailedError(message, details) ==
    Named(InternalError(message, Str(Lit("SERIALIZATION_FAILED")), details),
          "SerializationFailedError")

RaftApplyFailedError(message, details) ==
    Named(InternalError(message, Str(Lit("RAFT_APPLY_FAILED")), details),
          "RaftApplyFailedError")

IndexOperationFailedError(message, details) ==
    Named(InternalError(message, Str(Lit("INDEX_OPERATION_FAILED")), details),
          "IndexOperationFailedError")

DocumentOperationFailedError(message, details) ==
    Named(InternalError(message, Str(Lit("DOCUMENT_OPERATION_FAILED")), details),
          "DocumentOperationFailedError")

BatchOperationFailedError(message, details) ==
    Named(InternalError(message, Str(Lit("BATCH_OPERATION_FAILED")), details),
          "BatchOperationFailedError")

\* Mutant: the constructor leaves name and prototype as super() set them.
SearchFailedError_NoPrototype(message, details) ==
    InternalError(message, Str(Lit("SEARCH_FAILED")), details)

SearchFailedError(message, details) ==
    Named(InternalError(message, Str(Lit("SEARCH_FAILED")), details),
          "SearchFailedError")

\* What the runtime throws and the code does not construct itself.
RuntimeError(name, message) ==
    [ name |-> name, proto |-> name, message |-> Str(Lit(message)) ]

Return(v) == [type |-> "return", value |-> v]
Throw(v) == [type |-> "throw", value |-> v]

(***************************************************************************)
(* errors.ts: createBrightError                                            *)
(***************************************************************************)
\* switch (code) { case ...: return new ...Error(message, details) }: the
\* completion of the matching case, NoResult when no case matches.
CodeDispatch(message, code, details) ==
    CASE code = Str(Lit("MISSING_PARAMETER")) ->
            Return(MissingParameterError(message, details))
      [] code = Str(Lit("INVALID_PARAMETER")) ->
            Return(InvalidParameterError(message, details))
      [] code = Str(Lit("INVALID_REQUEST_BODY")) ->
            Return(InvalidRequestBodyError(message, details))
      [] code = Str(Lit("CONFLICTING_PARAMETERS")) ->
            Return(ConflictingParametersError(message, details))
      [] code = Str(Lit("INVALID_FORMAT")) ->
            Return(InvalidFormatError(message, details))
      [] code = Str(Lit("PARSE_ERROR")) ->
            Return(ParseError(message, details))
      [] code = Str(Lit("INDEX_NOT_FOUND")) ->
            Return(IndexNotFoundError(message, details))
      [] code = Str(Lit("DOCUMENT_NOT_FOUND")) ->
            Return(DocumentNotFoundError(message, details))
      [] code = Str(Lit("NOT_LEADER")) ->
            LET url == IF details = Undefined \/ details = Null
                       THEN Undefined ELSE Get(details, Lit("leaderUrl"))
                leaderUrl == IF url.t = "string" THEN url ELSE Undefined
            IN Return(NotLeaderError(message, leaderUrl, details))
      [] code = Str(Lit("CLUSTER_UNAVAILABLE")) ->
            Return(ClusterUnavailableError(message, details))
      [] code = Str(Lit("INSUFFICIENT_PERMISSIONS")) ->
            Return(InsufficientPermissionsError(message, details))
      [] code = Str(Lit("LEADER_ONLY_OPERATION")) ->
            Return(LeaderOnlyOperationError(message, details))
      [] code = Str(Lit("RESOURCE_ALREADY_EXISTS")) ->
            Return(ResourceAlreadyExistsError(message, details))
      [] code = Str(Lit("UUID_GENERATION_FAILED")) ->
            Return(UuidGenerationFailedError(message, details))
      [] code = Str(Lit("SERIALIZATION_FAILED")) ->
            Return(SerializationFailedError(message, details))
      [] code = Str(Lit("RAFT_APPLY_FAILED")) ->
            Return(RaftApplyFailedError(message, details))
      [] code = Str(Lit("INDEX_OPERATION_FAILED")) ->
            Return(IndexOperationFailedError(message, details))
      [] code = Str(Lit("DOCUMENT_OPERATION_FAILED")) ->
            Return(DocumentOperationFailedError(message, details))
      [] code = Str(Lit("BATCH_OPERATION_FAILED")) ->
            Return(BatchOperationFailedError(message, details))
      [] code = Str(Lit("SEARCH_FAILED")) ->
            Return(SearchFailedError(message, details))
      [] code = Str(Lit("INTERNAL_ERROR")) ->
            Return(InternalError(message, code, details))
      [] OTHER -> NoResult

\* Mutant: the status table lacks 'case 307:'.
StatusFallback_No307(statusCode, message, code, details) ==
    CASE statusCode = Num(400) -> Return(ValidationError(message, code, details))
      [] statusCode = Num(404) -> Return(NotFoundError(message, code, details))
      [] statusCode = Num(403) -> Return(AuthorizationError(message, code, details))
      [] statusCode = Num(409) -> Return(ConflictError(message, code, details))
      [] statusCode = Num(503) ->
            Return(ClusterError(message, statusCode, code, details))
      [] statusCode = Num(500) -> Return(InternalError(message, code, details))
      [] OTHER -> Return(BrightError(message, statusCode, code, details))

\* switch (statusCode) { case 400: ... default: ... }
StatusFallback(statusCode, message, code, details) ==
    CASE statusCode = Num(400) -> Return(ValidationError(message, code, details))
      [] statusCode = Num(404) -> Return(NotFoundError(message, code, details))
      [] statusCode = Num(403) -> Return(AuthorizationError(message, code, details))
      [] statusCode = Num(409) -> Return(ConflictError(message, code, details))
      [] statusCode \in {Num(307), Num(503)} ->
            Return(ClusterError(message, statusCode, code, details))
      [] statusCode = Num(500) -> Return(InternalError(message, code, details))
      [] OTHER -> Return(BrightError(message, statusCode, code, details))

\* Mutant: toJSON leaves the code out.
toJSON_NoCode(e) ==
    Obj(<< Prop(Lit("error"), e.message),
           Prop(Lit("details"), e.details),
           Prop(Lit("statusCode"), e.statusCode) >>)

\* BrightError.prototype.toJSON, which every error class inherits.
toJSON(e) ==
    Obj(<< Prop(Lit("error"), e.message),
           Prop(Lit("code"), e.code),
           Prop(Lit("details"), e.details),
           Prop(Lit("statusCode"), e.statusCode) >>)

\* Mutant: the switch over the code has a default that returns the generic
\* error, so an unknown code never reaches the status table.
createBrightError_DefaultGeneric(statusCode, errorResponse) ==
    IF errorResponse = Null \/ errorResponse = Undefined
    THEN Throw(RuntimeError("TypeError", "Cannot destructure property 'error'"))
    ELSE LET message == Get(errorResponse, Lit("error"))
             code == Get(errorResponse, Lit("code"))
             details == Get(errorResponse, Lit("details"))
             byCode == IF ToBoolean(code)
                       THEN CodeDispatch(message, code, details)
                       ELSE NoResult
         IN IF byCode # NoResult
            THEN byCode
            ELSE IF ToBoolean(code)
                 THEN Return(BrightError(message, statusCode, code, details))
                 ELSE StatusFallback(statusCode, message, code, details)

\* createBrightError(statusCode, errorResponse): the completion of the call.
\* Destructuring null or undefined throws a TypeError; destructuring any
\* other value reads its properties.
createBrightError(statusCode, errorResponse) ==
    IF errorResponse = Null \/ errorResponse = Undefined
    THEN Throw(RuntimeError("TypeError", "Cannot destructure property 'error'"))
    ELSE LET message == Get(errorResponse, Lit("error"))
             code == Get(errorResponse, Lit("code"))
             details == Get(errorResponse, Lit("details"))
             byCode == IF ToBoolean(code)
                       THEN CodeDispatch(message, code, details)
                       ELSE NoResult
         IN IF byCode # NoResult
            THEN byCode
            ELSE StatusFallback(statusCode, message, code, details)

(***************************************************************************)
(* index.ts: the query compiler                                            *)
(***************************************************************************)
\* parts.join(sep)
RECURSIVE Join(_, _)
Join(parts, sep) ==
    IF parts = <<>> THEN <<>>
    ELSE IF Len(parts) = 1 THEN parts[1]
    ELSE parts[1] \o sep \o Join(Tail(parts), sep)

\* Mutant: the entry is skipped when its value is falsy ('if (!val) continue').
FilterClause_SkipFalsy(key, val) ==
    IF ~ToBoolean(val) THEN <<>>
    ELSE IF val.t = "object" /\ HasProp(val, Lit("value"))
    THEN LET value == Get(val, Lit("value"))
             boost == Get(val, Lit("boost"))
         IN IF ToBoolean(boost)
            THEN << key \o <<":">> \o ToString(value) \o <<"^">> \o ToString(boost) >>
            ELSE << key \o <<":">> \o ToString(value) >>
    ELSE << key \o <<":">> \o ToString(val) >>

\* The body of the loop over Object.entries(filter): the parts one entry
\* pushes.  typeof null is 'object', hence the test val !== null, which
\* val.t = "object" covers here (null has its own tag).
FilterClause(key, val) ==
    IF val = Undefined THEN <<>>
    ELSE IF val.t = "object" /\ HasProp(val, Lit("value"))
    THEN LET value == Get(val, Lit("value"))
             boost == Get(val, Lit("boost"))
         IN IF ToBoolean(boost)
            THEN << key \o <<":">> \o ToString(value) \o <<"^">> \o ToString(boost) >>
            ELSE << key \o <<":">> \o ToString(value) >>
    ELSE << key \o <<":">> \o ToString(val) >>

RECURSIVE FilterParts(_)
FilterParts(entries) ==
    IF entries = <<>> THEN <<>>
    ELSE FilterClause(entries[1].k, entries[1].v) \o FilterParts(Tail(entries))

\* The loop body with its four tests written as truthiness tests: a bound of
\* 0 pushes nothing.
RangeClauses_SkipFalsy(key, rangeVal) ==
    IF rangeVal = Undefined THEN <<>>
    ELSE LET r == rangeVal
             part(bound, op) ==
                 IF ToBoolean(Get(r, Lit(bound)))
                 THEN << key \o <<":">> \o op \o ToString(Get(r, Lit(bound))) >>
                 ELSE <<>>
         IN part("gt", <<">">>) \o part("gte", <<">", "=">>)
                \o part("lt", <<"<">>) \o part("lte", <<"<", "=">>)

\* The body of the loop over Object.entries(range): the parts one entry
\* pushes, in the order of the four tests.
RangeClauses(key, rangeVal) ==
    IF rangeVal = Undefined THEN <<>>
    ELSE LET r == rangeVal
             part(bound, op) ==
                 IF Get(r, Lit(bound)) # Undefined
                 THEN << key \o <<":">> \o op \o ToString(Get(r, Lit(bound))) >>
                 ELSE <<>>
         IN part("gt", <<">">>) \o part("gte", <<">", "=">>)
                \o part("lt", <<"<">>) \o part("lte", <<"<", "=">>)

RECURSIVE RangeParts(_)
RangeParts(entries) ==
    IF entries = <<>> THEN <<>>
    ELSE RangeClauses(entries[1].k, entries[1].v) \o RangeParts(Tail(entries))

\* buildQueryFromFilters(filter, range)
buildQueryFromFilters(filter, range) ==
    LET parts == (IF ToBoolean(filter) THEN FilterParts(filter.entries) ELSE <<>>)
                    \o (IF ToBoolean(range) THEN RangeParts(range.entries) ELSE <<>>)
    IN Str(Join(parts, <<" ">>))

\* types.ts: range(name, filter)
range(name, filter) ==
    LET n == ToString(name)
        part(bound, op) ==
            IF Get(filter, Lit(bound)) # Undefined
            THEN << n \o <<":">> \o op \o ToString(Get(filter, Lit(bound))) >>
            ELSE <<>>
        parts == part("gt", <<">">>) \o part("gte", <<">", "=">>)
                    \o part("lt", <<"<">>) \o part("lte", <<"<", "=">>)
    IN Str(Join(parts, <<" ">>))

\* types.ts: field(name, value, boost)
field(name, value, boost) ==
    LET base == ToString(name) \o <<":">> \o ToString(value)
    IN IF ToBoolean(boost)
       THEN Str(base \o <<"^">> \o ToString(boost))
       ELSE Str(base)

(***************************************************************************)
(* The inputs the classification is exercised on.                          *)
(***************************************************************************)
\* The status codes of the fallback table, and three that are in no table.
StatusCodes == {307, 400, 403, 404, 409, 500, 503, 401, 418, 502}

\* Wire values of 'code': every defined code, a code of a newer server, the
\* empty string, and a code that is not a string.
CodeValues ==
    {Str(Lit(c)) : c \in ErrorCode}
        \cup {Str(Lit("FUTURE_CODE")), Str(<<>>), Num(7)}

MessageValues == {Str(Lit("index not found")), Str(<<>>)}

DetailsValues ==
    { Obj(<<Prop(Lit("leaderUrl"), Str(Lit("http://host:2")))>>),
      Obj(<<Prop(Lit("leaderUrl"), Num(2))>>),
      Obj(<<Prop(Lit("field"), Str(Lit("id")))>>) }

\* The members an envelope may carry, each present or absent.
OptProp(k, vals) == {<<>>} \cup {<<Prop(Lit(k), v)>> : v \in vals}

\* Objects of the shape {error, code?, details?}.
Envelopes ==
    { Obj(e \o c \o d) :
        e \in {<<Prop(Lit("error"), m)>> : m \in MessageValues},
        c \in OptProp("code", CodeValues),
        d \in OptProp("details", DetailsValues) }

(***************************************************************************)
(* Specification of the classification: the arguments are drawn, then      *)
(* createBrightError is applied to them.                                   *)
(***************************************************************************)
QueryIdle ==
    /\ qFilter = NoResult /\ qRange = NoResult /\ qResult = NoResult
    /\ fName = NoResult /\ fValue = NoResult /\ fBoost = NoResult
    /\ fResult = NoResult
    /\ sParams = NoResult /\ sRequest = NoResult

ClientIdle ==
    /\ client = NoResult
    /\ calls = <<>>
    /\ handle = NoResult

ClassifyIdle ==
    /\ clsStatus = NoResult /\ clsEnvelope = NoResult /\ clsResult = NoResult

InitClassify ==
    /\ clsStatus \in {Num(s) : s \in StatusCodes}
    /\ clsEnvelope \in Envelopes
    /\ clsResult = NoResult
    /\ QueryIdle
    /\ ClientIdle

Classify ==
    /\ clsResult = NoResult
    /\ clsResult' = createBrightError(clsStatus, clsEnvelope)
    /\ UNCHANGED <<clsStatus, clsEnvelope, qVars, reqVars>>

NextClassify == Classify

SpecClassify == InitClassify /\ [][NextClassify]_vars

(***************************************************************************)
(* The error taxonomy: claims                                              *)
(***************************************************************************)
\* The status each code is documented with: the comments of the ErrorCode
\* type ("Validation Errors (400)", "Cluster Errors (307/503)", ...).
ConventionalStatus(c) ==
    CASE c \in {"MISSING_PARAMETER", "INVALID_PARAMETER", "INVALID_REQUEST_BODY",
                "CONFLICTING_PARAMETERS", "INVALID_FORMAT", "PARSE_ERROR"} -> 400
      [] c \in {"INDEX_NOT_FOUND", "DOCUMENT_NOT_FOUND"} -> 404
      [] c = "NOT_LEADER" -> 307
      [] c = "CLUSTER_UNAVAILABLE" -> 503
      [] c \in {"INSUFFICIENT_PERMISSIONS", "LEADER_ONLY_OPERATION"} -> 403
      [] c = "RESOURCE_ALREADY_EXISTS" -> 409
      [] OTHER -> 500

Classified == clsResult # NoResult
EnvCode == Get(clsEnvelope, Lit("code"))
EnvError == Get(clsEnvelope, Lit("error"))
EnvDetails == Get(clsEnvelope, Lit("details"))
IsDefinedCode(code) == \E c \in ErrorCode : code = Str(Lit(c))
DefinedCodeOf(code) == CHOOSE c \in ErrorCode : code = Str(Lit(c))

\* The envelope with its code member replaced, and with it removed.
WithoutCode(env) ==
    Obj(SelectSeq(env.entries, LAMBDA p : p.k # Lit("code")))
WithCode(env, code) ==
    Obj(WithoutCode(env).entries \o <<Prop(Lit("code"), code)>>)

\* C1, as stated: for every status code and every defined code c, the error
\* createBrightError(statusCode, {error, code: c}) returns has .code = c and
\* .statusCode = the statusCode passed in.
C1_RoundTripsCodeAndStatus ==
    (Classified /\ IsDefinedCode(EnvCode)) =>
        /\ clsResult.type = "return"
        /\ clsResult.value.code = EnvCode
        /\ clsResult.value.statusCode = clsStatus

\* C1, amended: for every status code and every defined code c, the returned
\* error has .code = c and .statusCode = the conventional status of c, so
\* the passed statusCode is recovered exactly when it is that status.
C1_RoundTripsCodeAndConventionalStatus ==
    (Classified /\ IsDefinedCode(EnvCode)) =>
        /\ clsResult.type = "return"
        /\ clsResult.value.code = EnvCode
        /\ clsResult.value.statusCode = Num(ConventionalStatus(DefinedCodeOf(EnvCode)))
        /\ (clsResult.value.statusCode = clsStatus
              <=> clsStatus = Num(ConventionalStatus(DefinedCodeOf(EnvCode))))

C1_Witness ==
    /\ Classified
    /\ EnvCode = Str(Lit("INDEX_NOT_FOUND"))
    /\ clsStatus = Num(500)
    /\ clsResult.value.statusCode = Num(404)

\* C2: when the envelope's code is a defined one, the error is decided by the
\* code alone (every status code gives the same error, also a status code of
\* the fallback table), it carries that code, and no other defined code
\* yields the same concrete error type.
C2_DispatchOnCodeAlone ==
    (Classified /\ IsDefinedCode(EnvCode)) =>
        /\ clsResult.type = "return"
        /\ clsResult.value.code = EnvCode
        /\ clsResult.value.name = clsResult.value.proto
        /\ \A s \in StatusCodes :
              createBrightError(Num(s), clsEnvelope) = clsResult
        /\ \A c \in ErrorCode :
              Str(Lit(c)) # EnvCode =>
                  createBrightError(clsStatus, WithCode(clsEnvelope, Str(Lit(c)))).value.proto
                      # clsResult.value.proto

C2_Witness ==
    /\ Classified
    /\ EnvCode = Str(Lit("INTERNAL_ERROR"))
    /\ clsStatus = Num(404)
    /\ clsResult.value.name = "InternalError"

\* C3: when the envelope's code is present but not a defined one, the error
\* is the one the same envelope without the code gives, except that the
\* unknown code is carried in .code; with status 404 it is of the not-found
\* category and not the generic base error.
C3_UnknownCodeFallsBackToStatus ==
    (Classified /\ HasProp(clsEnvelope, Lit("code")) /\ ~IsDefinedCode(EnvCode)) =>
        /\ clsResult.type = "return"
        /\ clsResult.value.code = EnvCode
        /\ LET absent == createBrightError(clsStatus, WithoutCode(clsEnvelope))
           IN /\ absent.type = "return"
              /\ [clsResult.value EXCEPT !.code = Undefined] = absent.value
        /\ clsStatus = Num(404) =>
              /\ InstanceOf(clsResult.value, "NotFoundError")
              /\ clsResult.value.proto # "BrightError"

C3_Witness ==
    /\ Classified
    /\ EnvCode = Str(Lit("FUTURE_CODE"))
    /\ clsStatus = Num(404)
    /\ clsResult.value.name = "NotFoundError"
    /\ clsResult.value.code = Str(Lit("FUTURE_CODE"))

\* The class the status fallback is claimed to choose.
C4_ClassOfStatus(s) ==
    CASE s = 400 -> "ValidationError"
      [] s = 404 -> "NotFoundError"
      [] s = 403 -> "AuthorizationError"
      [] s = 409 -> "ConflictError"
      [] s \in {307, 503} -> "ClusterError"
      [] s = 500 -> "InternalError"
      [] OTHER -> "BrightError"

C14_LeaderUrlFromDetails ==
    (Classified /\ EnvCode = Str(Lit("NOT_LEADER"))) =>
        LET e == clsResult.value
            url == IF HasProp(clsEnvelope, Lit("details"))
                   THEN Get(EnvDetails, Lit("leaderUrl")) ELSE Undefined
        IN /\ clsResult.type = "return"
           /\ InstanceOf(e, "NotLeaderError")
           /\ e.leaderUrl = IF url.t = "string" THEN url ELSE Undefined
           /\ e.details = EnvDetails

C14_Witness ==
    /\ Classified
    /\ EnvCode = Str(Lit("NOT_LEADER"))
    /\ EnvDetails = Obj(<<Prop(Lit("leaderUrl"), Str(Lit("http://host:2")))>>)
    /\ clsResult.value.leaderUrl = Str(Lit("http://host:2"))

\* C18: on every path of the classification (a defined code, the status
\* table, the generic error) the error's message is the envelope's error
\* and its details are the envelope's details unchanged, undefined when the
\* envelope has none.
C18_MessageAndDetailsForwarded ==
    Classified =>
        /\ clsResult.type = "return"
        /\ clsResult.value.message = EnvError
        /\ clsResult.value.details = EnvDetails
        /\ ~HasProp(clsEnvelope, Lit("details")) => clsResult.value.details = Undefined

C18_Witness ==
    /\ Classified
    /\ EnvCode = Str(Lit("DOCUMENT_NOT_FOUND"))
    /\ EnvError = Str(Lit("index not found"))
    /\ EnvDetails = Obj(<<Prop(Lit("field"), Str(Lit("id")))>>)
    /\ clsResult.value.message = Str(Lit("index not found"))
    /\ clsResult.value.details = Obj(<<Prop(Lit("field"), Str(Lit("id")))>>)

\* C20: for every defined code the error's statusCode is the conventional
\* status of that code (400 validation, 404 not-found, 307 NOT_LEADER, 503
\* CLUSTER_UNAVAILABLE, 403 authorization, 409 RESOURCE_ALREADY_EXISTS, 500
\* internal), whatever status code the response carried.
C20_StatusIsConventionalForCode ==
    (Classified /\ IsDefinedCode(EnvCode)) =>
        \A s \in StatusCodes \cup {clsStatus.n} :
            LET built == createBrightError(Num(s), clsEnvelope)
            IN /\ built.type = "return"
               /\ built.value.statusCode = Num(ConventionalStatus(DefinedCodeOf(EnvCode)))
               /\ built.value.statusCode = clsResult.value.statusCode

C20_Witness ==
    /\ Classified
    /\ EnvCode = Str(Lit("CLUSTER_UNAVAILABLE"))
    /\ clsStatus = Num(404)
    /\ clsResult.value.statusCode = Num(503)

\* The error classified again from its own statusCode and toJSON().
Reclassified == createBrightError(clsResult.value.statusCode, toJSON(clsResult.value))

\* C22: for every status code and envelope, the error e that
\* createBrightError returns classifies to itself through toJSON:
\* createBrightError(e.statusCode, e.toJSON()) returns an error of the same
\* concrete type, message, code, statusCode, details and leaderUrl.
C22_IdempotentThroughToJSON ==
    (Classified /\ clsResult.type = "return") =>
        /\ Reclassified.type = "return"
        /\ Reclassified.value.proto = clsResult.value.proto
        /\ Reclassified.value.name = clsResult.value.name
        /\ Reclassified.value.message = clsResult.value.message
        /\ Reclassified.value.code = clsResult.value.code
        /\ Reclassified.value.statusCode = clsResult.value.statusCode
        /\ Reclassified.value.details = clsResult.value.details
        /\ Reclassified.value.leaderUrl = clsResult.value.leaderUrl

C22_Witness ==
    /\ Classified
    /\ EnvCode = Str(Lit("NOT_LEADER"))
    /\ clsStatus = Num(500)
    /\ clsResult.value.statusCode = Num(307)
    /\ clsResult.value.leaderUrl = Str(Lit("http://host:2"))
    /\ toJSON(clsResult.value) =
          Obj(<< Prop(Lit("error"), EnvError),
                 Prop(Lit("code"), Str(Lit("NOT_LEADER"))),
                 Prop(Lit("details"), EnvDetails),
                 Prop(Lit("statusCode"), Num(307)) >>)
    /\ Reclassified.value.proto = "NotLeaderError"
    /\ Reclassified.value.leaderUrl = Str(Lit("http://host:2"))

(***************************************************************************)
(* The inputs the query compiler is exercised on.                          *)
(***************************************************************************)
\* The most entries a filter object is drawn with.
MaxFilterLen == 2

FieldNames == {Lit("price"), Lit("name"), Lit("stock")}

\* Values of a filter entry: absent, the falsy scalars, other scalars, and
\* the {value, boost} form with the boost missing, undefined, zero and set.
FilterValues ==
    { Undefined, Null, Num(0), Num(10), Bool(FALSE),
      Str(<<>>), Str(Lit("water")),
      Obj(<<Prop(Lit("value"), Num(10))>>),
      Obj(<<Prop(Lit("value"), Num(10)), Prop(Lit("boost"), Undefined)>>),
      Obj(<<Prop(Lit("value"), Num(10)), Prop(Lit("boost"), Num(2))>>),
      Obj(<<Prop(Lit("value"), Num(10)), Prop(Lit("boost"), Num(0))>>),
      Obj(<<Prop(Lit("value"), Str(<<>>)), Prop(Lit("boost"), Num(5))>>) }

\* The objects of n entries with distinct keys, in every order of the keys.
ObjectsOf(n, keys, values) ==
    { Obj([i \in 1..n |-> Prop(ks[i], vs[i])]) :
        ks \in {f \in [1..n -> keys] : \A i, j \in 1..n : i # j => f[i] # f[j]},
        vs \in [1..n -> values] }

Filters ==
    {Undefined} \cup UNION {ObjectsOf(n, FieldNames, FilterValues) : n \in 0..MaxFilterLen}

Ranges ==
    { Undefined,
      Obj(<<>>),
      Obj(<<Prop(Lit("price"), Undefined)>>),
      Obj(<<Prop(Lit("price"), Obj(<<>>))>>),
      Obj(<<Prop(Lit("price"), Obj(<<Prop(Lit("gt"), Num(0))>>))>>),
      Obj(<<Prop(Lit("price"),
                 Obj(<<Prop(Lit("gte"), Num(10)), Prop(Lit("lt"), Num(100))>>))>>),
      Obj(<<Prop(Lit("price"),
                 Obj(<<Prop(Lit("lt"), Num(100)), Prop(Lit("gte"), Num(10))>>))>>),
      Obj(<<Prop(Lit("price"),
                 Obj(<<Prop(Lit("lte"), Num(100)), Prop(Lit("lt"), Num(100)),
                       Prop(Lit("gte"), Num(10)), Prop(Lit("gt"), Num(0))>>))>>),
      Obj(<<Prop(Lit("stock"),
                 Obj(<<Prop(Lit("gt"), Undefined), Prop(Lit("lt"), Num(2))>>))>>),
      Obj(<<Prop(Lit("price"), Obj(<<Prop(Lit("gte"), Num(10))>>)),
            Prop(Lit("stock"), Obj(<<Prop(Lit("lte"), Num(0))>>))>>) }

FieldValues == {Num(0), Num(10), Bool(FALSE), Str(<<>>), Str(Lit("water"))}
BoostValues == {Undefined, Num(0), Num(2), Num(5)}

(***************************************************************************)
(* Specification of the query compiler: the arguments of one of the two    *)
(* pure functions are drawn, then the function is applied to them.         *)
(***************************************************************************)
FieldIdle ==
    /\ fName = NoResult /\ fValue = NoResult /\ fBoost = NoResult
    /\ fResult = NoResult

SearchIdle == sParams = NoResult /\ sRequest = NoResult

InitBuildQuery ==
    /\ qFilter \in Filters
    /\ qRange \in Ranges
    /\ qResult = NoResult
    /\ FieldIdle

InitField ==
    /\ fName \in {Str(n) : n \in FieldNames}
    /\ fValue \in FieldValues
    /\ fBoost \in BoostValues
    /\ fResult = NoResult
    /\ qFilter = NoResult /\ qRange = NoResult /\ qResult = NoResult

InitCompile ==
    /\ InitBuildQuery \/ InitField
    /\ SearchIdle
    /\ ClassifyIdle
    /\ ClientIdle

BuildQuery ==
    /\ qFilter # NoResult
    /\ qResult = NoResult
    /\ qResult' = buildQueryFromFilters(qFilter, qRange)
    /\ UNCHANGED <<qFilter, qRange, fName, fValue, fBoost, fResult, sParams, sRequest,
                 clsVars, reqVars>>

Field ==
    /\ fName # NoResult
    /\ fResult = NoResult
    /\ fResult' = field(fName, fValue, fBoost)
    /\ UNCHANGED <<fName, fValue, fBoost, qFilter, qRange, qResult, sParams, sRequest,
                 clsVars, reqVars>>

NextCompile == BuildQuery \/ Field

SpecCompile == InitCompile /\ [][NextCompile]_vars

(***************************************************************************)
(* The query compiler: claims                                              *)
(***************************************************************************)
\* The clauses of a compiled query: the pieces between its spaces (none of
\* the drawn keys and values holds a space).
RECURSIVE SplitOnSpace(_, _)
SplitOnSpace(s, cur) ==
    IF s = <<>> THEN <<cur>>
    ELSE IF Head(s) = " " THEN <<cur>> \o SplitOnSpace(Tail(s), <<>>)
    ELSE SplitOnSpace(Tail(s), Append(cur, Head(s)))

ClausesOf(str) == IF str.s = <<>> THEN <<>> ELSE SplitOnSpace(str.s, <<>>)

Compiled == qResult # NoResult
FilterEntries == IF qFilter = Undefined THEN <<>> ELSE qFilter.entries
DefinedEntries == SelectSeq(FilterEntries, LAMBDA p : p.v # Undefined)
IsBoostForm(v) == v.t = "object" /\ HasProp(v, Lit("value"))
IsPrefix(p, s) == Len(p) <= Len(s) /\ SubSeq(s, 1, Len(p)) = p
NoRangeClause == qRange \in {Undefined, Obj(<<>>)}

\* C9: the compiled query holds exactly one clause per filter entry whose
\* value is not undefined, in the filter's iteration order, ahead of the
\* range clauses, the clauses separated by single spaces; a scalar entry's
\* clause is field:value, also for the values 0, false and the empty string,
\* and an entry whose value is undefined has no clause.
C9_OneClausePerDefinedEntry ==
    Compiled =>
        LET clauses == ClausesOf(qResult)
            n == Len(DefinedEntries)
        IN /\ Len(clauses) >= n
           /\ NoRangeClause => Len(clauses) = n
           /\ \A i \in 1..Len(clauses) : clauses[i] # <<>>
           /\ \A i \in 1..Len(clauses) :
                 i > n => \E j \in 1..Len(clauses[i]) : clauses[i][j] \in {"<", ">"}
           /\ \A i \in 1..n :
                 LET p == DefinedEntries[i]
                 IN IF IsBoostForm(p.v)
                    THEN IsPrefix(p.k \o <<":">> \o ToString(Get(p.v, Lit("value"))),
                                  clauses[i])
                    ELSE clauses[i] = p.k \o <<":">> \o ToString(p.v)

C9_Witness ==
    /\ Compiled
    /\ qFilter = Obj(<<Prop(Lit("price"), Num(0)), Prop(Lit("name"), Str(<<>>))>>)
    /\ qRange = Undefined
    /\ qResult = Str(<<"price", ":", "0", " ", "name", ":">>)

\* C10: a filter entry of the form {value, boost} compiles to
\* field:value^boost when its boost is defined, whatever the number, and to
\* field:value when it is not; field(name, value, boost) does the same.
C10_BoostAppendedWhenDefined ==
    /\ Compiled =>
          \A i \in 1..Len(DefinedEntries) :
              LET p == DefinedEntries[i]
                  value == Get(p.v, Lit("value"))
                  boost == Get(p.v, Lit("boost"))
                  base == p.k \o <<":">> \o ToString(value)
              IN IsBoostForm(p.v) =>
                    ClausesOf(qResult)[i] =
                        IF boost # Undefined
                        THEN base \o <<"^">> \o ToString(boost)
                        ELSE base
    /\ fResult # NoResult =>
          LET base == fName.s \o <<":">> \o ToString(fValue)
          IN fResult = IF fBoost # Undefined
                       THEN Str(base \o <<"^">> \o ToString(fBoost))
                       ELSE Str(base)

\* What the code does for the boost: it is appended exactly when it is
\* truthy, so a boost of 0 is dropped like an undefined one, by
\* buildQueryFromFilters and by field() alike.
C10_BoostAppendedWhenTruthy ==
    /\ Compiled =>
          \A i \in 1..Len(DefinedEntries) :
              LET p == DefinedEntries[i]
                  value == Get(p.v, Lit("value"))
                  boost == Get(p.v, Lit("boost"))
                  base == p.k \o <<":">> \o ToString(value)
              IN IsBoostForm(p.v) =>
                    ClausesOf(qResult)[i] =
                        IF boost \notin {Undefined, Num(0)}
                        THEN base \o <<"^">> \o ToString(boost)
                        ELSE base
    /\ fResult # NoResult =>
          LET base == fName.s \o <<":">> \o ToString(fValue)
          IN fResult = IF fBoost \notin {Undefined, Num(0)}
                       THEN Str(base \o <<"^">> \o ToString(fBoost))
                       ELSE Str(base)

\* The four bounds of a range in the order the compiler writes them, each
\* with its operator.
BoundOrder == <<"gt", "gte", "lt", "lte">>
BoundOperator(b) ==
    CASE b = "gt" -> <<">">>
      [] b = "gte" -> <<">", "=">>
      [] b = "lt" -> <<"<">>
      [] b = "lte" -> <<"<", "=">>

RangeEntries == IF qRange = Undefined THEN <<>> ELSE qRange.entries

\* The clauses a range entry is to give: one per bound that is not
\* undefined, in the fixed order.
EntryClauses(p) ==
    IF p.v = Undefined THEN <<>>
    ELSE LET defined == SelectSeq(BoundOrder,
                                  LAMBDA b : HasProp(p.v, Lit(b))
                                             /\ Get(p.v, Lit(b)) # Undefined)
         IN [i \in 1..Len(defined) |->
                p.k \o <<":">> \o BoundOperator(defined[i])
                    \o NumberToString(Get(p.v, Lit(defined[i])).n)]

RECURSIVE AllEntryClauses(_)
AllEntryClauses(entries) ==
    IF entries = <<>> THEN <<>>
    ELSE EntryClauses(entries[1]) \o AllEntryClauses(Tail(entries))

\* C11: after the filter clauses, the compiled query holds for every range
\* entry one clause per bound that is not undefined and none for an
\* undefined bound, in the order gt, gte, lt, lte whatever the order the
\* bounds were written in, as field:>x, field:>=x, field:<x, field:<=x; a
\* bound of 0 has its clause; range(name, filter) gives the same clauses for
\* one entry.
C11_RangeClausesInFixedOrder ==
    Compiled =>
        LET clauses == ClausesOf(qResult)
            n == Len(DefinedEntries)
        IN /\ SubSeq(clauses, n + 1, Len(clauses)) = AllEntryClauses(RangeEntries)
           /\ \A i \in 1..Len(RangeEntries) :
                 LET p == RangeEntries[i]
                 IN p.v # Undefined =>
                       ClausesOf(range(Str(p.k), p.v)) = EntryClauses(p)

C11_Witness ==
    /\ Compiled
    /\ qFilter = Undefined
    /\ qRange = Obj(<<Prop(Lit("price"),
                       Obj(<<Prop(Lit("lt"), Num(100)), Prop(Lit("gte"), Num(10))>>))>>)
    /\ qResult = Str(<<"price", ":", ">", "=", "1", "0", " ",
                       "price", ":", "<", "1", "0", "0">>)

(***************************************************************************)
(* index.ts: BrightClient, its request executor and the operations built   *)
(* on it.  A call is an async function: it runs up to its next await in    *)
(* one step, and each promise it awaits settles in a step of its own.      *)
(***************************************************************************)
\* The most calls in progress on the client at one time.
MaxCalls == 2

CallIds == 1..MaxCalls

\* options.baseUrl.replace(/\/$/, '')
StripTrailingSlash(url) ==
    IF url # <<>> /\ url[Len(url)] = "/"
    THEN SubSeq(url, 1, Len(url) - 1)
    ELSE url

\* new BrightClient(options)
BrightClient(options) ==
    [ baseUrl |-> Str(StripTrailingSlash(options.baseUrl.s)),
      apiKey |-> options.apiKey,
      fetchFn |-> IF ToBoolean(options.fetch) THEN options.fetch
                  ELSE Str(Lit("globalThis.fetch")) ]

\* {...a, ...b}: the properties of a, those b also has replaced in place,
\* then the properties only b has.
Spread(a, b) ==
    LET kept == [i \in 1..Len(a) |->
                    IF HasProp(Obj(b), a[i].k)
                    THEN Prop(a[i].k, Get(Obj(b), a[i].k)) ELSE a[i]]
        added == SelectSeq(b, LAMBDA p : ~HasProp(Obj(a), p.k))
    IN kept \o added

\* Mutant: the caller's headers are spread ahead of the defaults.
FetchArgs_DefaultsLast(c, path, options) ==
    LET given == IF options = Undefined THEN <<>> ELSE options.entries
        own == Get(Obj(given), Lit("headers"))
        headers ==
            Spread(Spread(IF own = Undefined THEN <<>> ELSE own.entries,
                          <<Prop(Lit("Content-Type"), Str(Lit("application/json")))>>),
                   IF ToBoolean(c.apiKey)
                   THEN <<Prop(Lit("Authorization"), Str(Lit("Bearer ") \o c.apiKey.s))>>
                   ELSE <<>>)
    IN [ url |-> Str(c.baseUrl.s \o path),
         init |-> Obj(Spread(given, <<Prop(Lit("headers"), Obj(headers))>>)) ]

\* The arguments of fetchFn that request(path, options) builds.
FetchArgs(c, path, options) ==
    LET given == IF options = Undefined THEN <<>> ELSE options.entries
        own == Get(Obj(given), Lit("headers"))
        headers ==
            Spread(Spread(<<Prop(Lit("Content-Type"), Str(Lit("application/json")))>>,
                          IF ToBoolean(c.apiKey)
                          THEN <<Prop(Lit("Authorization"),
                                      Str(Lit("Bearer ") \o c.apiKey.s))>>
                          ELSE <<>>),
                   IF own = Undefined THEN <<>> ELSE own.entries)
    IN [ url |-> Str(c.baseUrl.s \o path),
         init |-> Obj(Spread(given, <<Prop(Lit("headers"), Obj(headers))>>)) ]

\* The operations modelled, and what each passes to request().
Ops == {"indexExists", "ingressExists", "getIngress", "deleteIndex"}

IndexPath(id) == Lit("/indexes/") \o id
IngressPath(indexId, ingressId) ==
    Lit("/indexes/") \o indexId \o Lit("/ingresses/") \o ingressId

RequestPath(op, indexId, ingressId) ==
    IF op \in {"indexExists", "deleteIndex"}
    THEN IndexPath(indexId)
    ELSE IngressPath(indexId, ingressId)

RequestOptions(op) ==
    CASE op \in {"indexExists", "ingressExists"} ->
            Obj(<<Prop(Lit("method"), Str(Lit("GET")))>>)
      [] op = "deleteIndex" -> Obj(<<Prop(Lit("method"), Str(Lit("DELETE")))>>)
      [] OTHER -> Undefined

\* response.ok, as fetch defines it.
Ok(status) == status \in 200..299

Response(status, statusText, body) ==
    [ status |-> Num(status), ok |-> Ok(status),
      statusText |-> Str(Lit(statusText)), body |-> body ]

\* A response body: text that does not parse as JSON (an empty body too), or
\* the value it parses to.
NonJson == [json |-> FALSE]
Json(v) == [json |-> TRUE, value |-> v]

\* response.json(), settled.
ResponseJson(response) ==
    IF response.body.json
    THEN Return(response.body.value)
    ELSE Throw(RuntimeError("SyntaxError", "Unexpected end of JSON input"))

\* await response.json().catch(() => ({ error: response.statusText }))
ErrorEnvelope(response) ==
    LET decoded == ResponseJson(response)
    IN IF decoded.type = "return"
       THEN decoded.value
       ELSE Obj(<<Prop(Lit("error"), response.statusText)>>)

\* Mutant: the test for status 204 is missing.
AfterFetch_No204(response) ==
    IF ~response.ok THEN "errorJson" ELSE "json"

\* What request() does once fetchFn has resolved: which promise it awaits
\* next, or "return" when it returns undefined without awaiting any.
AfterFetch(response) ==
    IF ~response.ok THEN "errorJson"
    ELSE IF response.status = Num(204) THEN "return"
    ELSE "json"

\* Mutant: the error is built from the status alone, the envelope's code
\* left out.
ThrowClassified_ByStatus(response) ==
    LET envelope == ErrorEnvelope(response)
    IN Throw(createBrightError(response.status,
                               IF envelope.t = "object" THEN WithoutCode(envelope)
                               ELSE envelope).value)

\* throw createBrightError(response.status, errorResponse): request() ends
\* throwing the error built, or what createBrightError itself threw.
ThrowClassified(response) ==
    Throw(createBrightError(response.status, ErrorEnvelope(response)).value)

\* Mutant: the catch clause turns every BrightError into false.
ExistsResult_AnyBrightError(requested) ==
    IF requested.type = "return" THEN Return(Bool(TRUE))
    ELSE IF InstanceOf(requested.value, "BrightError") THEN Return(Bool(FALSE))
    ELSE requested

\* indexExists / ingressExists: try { await this.request(...); return true }
\* catch (error) { if (error instanceof NotFoundError) return false; throw error }
ExistsResult(requested) ==
    IF requested.type = "return" THEN Return(Bool(TRUE))
    ELSE IF InstanceOf(requested.value, "NotFoundError") THEN Return(Bool(FALSE))
    ELSE requested

\* listIngresses: const response = await this.request(...); return response.ingresses
IngressesOf(requested) ==
    IF requested.type = "throw" THEN requested
    ELSE IF requested.value \in {Undefined, Null}
    THEN Throw(RuntimeError("TypeError", "Cannot read properties of undefined"))
    ELSE Return(Get(requested.value, Lit("ingresses")))

\* The completion of the operation, given the completion of its request().
OpResult(op, requested) ==
    IF op \in {"indexExists", "ingressExists"}
    THEN ExistsResult(requested)
    ELSE IF op = "listIngresses" THEN IngressesOf(requested)
    ELSE requested

\* A call not made yet.  args holds the arguments the operation was called
\* with; for a call made through an index handle, member is the member
\* called and passed the arguments it was called with.
IdleCall ==
    [ pc |-> "idle", op |-> "none", args |-> <<>>, member |-> "none", passed |-> <<>>,
      fetchArgs |-> NoResult, response |-> NoResult,
      requested |-> NoResult, outcome |-> NoResult, fetchCalls |-> 0, jsonCalls |-> 0 ]

\* Mutant: request() is run once more when it threw.
Finished_RetriesOnThrow(call, requested) ==
    IF requested.type = "throw" /\ call.fetchCalls < 2
    THEN [ call EXCEPT !.pc = "fetch", !.fetchCalls = @ + 1 ]
    ELSE [ call EXCEPT !.pc = "done", !.requested = requested,
                       !.outcome = OpResult(call.op, requested) ]

\* request() has ended with completion 'requested', and the operation with it.
Finished(call, requested) ==
    [ call EXCEPT !.pc = "done", !.requested = requested,
                  !.outcome = OpResult(call.op, requested) ]

(***************************************************************************)
(* The inputs the client is exercised on.                                  *)
(***************************************************************************)
ClientOptions ==
    { [baseUrl |-> Str(<<"http://bright:3000", "/">>), apiKey |-> Str(Lit("secret")),
       fetch |-> Undefined],
      [baseUrl |-> Str(<<"http://bright:3000">>), apiKey |-> Undefined,
       fetch |-> Str(Lit("options.fetch"))] }

TheIndexId == Lit("products")
TheIngressId == Lit("pg")

ErrorBody(error, code) ==
    Json(Obj(<<Prop(Lit("error"), Str(Lit(error))), Prop(Lit("code"), Str(Lit(code)))>>))

\* What the transport may answer: successes with and without a body, error
\* statuses with a well-formed envelope, with a body that is no JSON, and
\* with JSON that is no envelope.
Responses ==
    { Response(200, "OK", Json(Obj(<<Prop(Lit("id"), Str(Lit("products")))>>))),
      Response(204, "No Content", NonJson),
      Response(404, "Not Found", ErrorBody("index not found", "INDEX_NOT_FOUND")),
      Response(404, "Not Found", NonJson),
      Response(403, "Forbidden", ErrorBody("forbidden", "INSUFFICIENT_PERMISSIONS")),
      Response(502, "Bad Gateway", NonJson),
      Response(500, "Internal Server Error", Json(Null)),
      Response(400, "Bad Request", Json(Num(5))),
      Response(409, "Conflict", Json(Obj(<<Prop(Lit("message"), Str(Lit("exists")))>>))) }

(***************************************************************************)
(* Specification of the client.                                            *)
(***************************************************************************)
Init ==
    /\ client \in {BrightClient(o) : o \in ClientOptions}
    /\ calls = [c \in CallIds |-> IdleCall]
    /\ handle = NoResult
    /\ ClassifyIdle
    /\ QueryIdle

\* Mutant: request() keeps the url it built as the client's base URL.
Call_KeepsUrl(c, op) ==
    /\ calls[c].pc = "idle"
    /\ LET args == FetchArgs(client, RequestPath(op, TheIndexId, TheIngressId),
                             RequestOptions(op))
       IN /\ calls' = [calls EXCEPT ![c] =
                [ @ EXCEPT !.pc = "fetch", !.op = op, !.fetchArgs = args,
                           !.fetchCalls = @ + 1 ]]
          /\ client' = [client EXCEPT !.baseUrl = args.url]
    /\ UNCHANGED <<handle, clsVars, qVars>>

\* A caller invokes an operation: it runs to 'await this.fetchFn(url, ...)'.
Call(c, op) ==
    /\ calls[c].pc = "idle"
    /\ calls' = [calls EXCEPT ![c] =
          [ @ EXCEPT !.pc = "fetch", !.op = op,
                     !.fetchArgs = FetchArgs(client, RequestPath(op, TheIndexId, TheIngressId),
                                             RequestOptions(op)),
                     !.fetchCalls = @ + 1 ]]
    /\ UNCHANGED <<client, handle, clsVars, qVars>>

\* The transport resolves with a response: request() runs to its next await,
\* or returns undefined for a 204.
FetchResolve(c, response) ==
    /\ calls[c].pc = "fetch"
    /\ LET next == AfterFetch(response)
           got == [calls[c] EXCEPT !.response = response]
       IN calls' = [calls EXCEPT ![c] =
             IF next = "return"
             THEN Finished(got, Return(Undefined))
             ELSE [got EXCEPT !.pc = next, !.jsonCalls = @ + 1]]
    /\ UNCHANGED <<client, handle, clsVars, qVars>>

\* The transport rejects (no response): the rejection leaves request().
FetchReject(c) ==
    /\ calls[c].pc = "fetch"
    /\ calls' = [calls EXCEPT ![c] =
          Finished(@, Throw(RuntimeError("TypeError", "fetch failed")))]
    /\ UNCHANGED <<client, handle, clsVars, qVars>>

\* The decoding of an error body settles: request() throws the classified error.
ErrorBodySettle(c) ==
    /\ calls[c].pc = "errorJson"
    /\ calls' = [calls EXCEPT ![c] = Finished(@, ThrowClassified(@.response))]
    /\ UNCHANGED <<client, handle, clsVars, qVars>>

\* The decoding of a success body settles: request() ends as the decoding did.
BodySettle(c) ==
    /\ calls[c].pc = "json"
    /\ calls' = [calls EXCEPT ![c] = Finished(@, ResponseJson(@.response))]
    /\ UNCHANGED <<client, handle, clsVars, qVars>>

Next ==
    \E c \in CallIds :
        \/ \E op \in Ops : Call(c, op)
        \/ \E response \in Responses : FetchResolve(c, response)
        \/ FetchReject(c)
        \/ ErrorBodySettle(c)
        \/ BodySettle(c)

Spec == Init /\ [][Next]_vars

(***************************************************************************)
(* The request executor: claims                                            *)
(***************************************************************************)
Done(c) == calls[c].pc = "done"
Invoked(c) == calls[c].pc # "idle"
IsExists(c) == calls[c].op \in {"indexExists", "ingressExists"}
Answered(c) == calls[c].response # NoResult
NotFoundCategory(e) == InstanceOf(e, "NotFoundError")

\* C5: indexExists and ingressExists return true when the probe's request
\* returned, return false exactly when it raised an error of the not-found
\* category, and otherwise raise the very error the request raised; a
\* transport failure, and a response that classifies outside that category,
\* is never answered with false.
C5_ExistsFalseOnlyOnNotFound ==
    \A c \in CallIds :
        (Done(c) /\ IsExists(c)) =>
            LET requested == calls[c].requested
                outcome == calls[c].outcome
            IN /\ requested.type = "return" => outcome = Return(Bool(TRUE))
               /\ (requested.type = "throw" /\ NotFoundCategory(requested.value))
                      => outcome = Return(Bool(FALSE))
               /\ (requested.type = "throw" /\ ~NotFoundCategory(requested.value))
                      => outcome = requested
               /\ outcome = Return(Bool(FALSE)) =>
                      /\ Answered(c)
                      /\ ~calls[c].response.ok
                      /\ requested.type = "throw"
                      /\ requested.value.proto
                            \in {"NotFoundError", "IndexNotFoundError", "DocumentNotFoundError"}
               /\ outcome = Return(Bool(TRUE)) => (Answered(c) /\ calls[c].response.ok)

C5_Witness ==
    \E c \in CallIds :
        /\ Done(c)
        /\ calls[c].op = "indexExists"
        /\ Answered(c)
        /\ calls[c].response.status = Num(403)
        /\ calls[c].outcome.type = "throw"
        /\ calls[c].outcome.value.name = "InsufficientPermissionsError"

\* The body of an error response is an object or a primitive, so that
\* createBrightError can read its members.
DecodesToNonNull(response) == response.body.json /\ response.body.value # Null

\* C6: for every response with a non-success status, request() returns no
\* value: it raises the error createBrightError builds from the status and
\* the decoded body, for every body, a body that decodes to null too; and
\* for a body that does not decode, the error built from the status and
\* {error: <status text>} alone.
C6_ErrorStatusRaisesClassified ==
    \A c \in CallIds :
        (Done(c) /\ Answered(c) /\ ~calls[c].response.ok) =>
            LET response == calls[c].response
                requested == calls[c].requested
                envelope == IF response.body.json
                            THEN response.body.value
                            ELSE Obj(<<Prop(Lit("error"), response.statusText)>>)
                built == createBrightError(response.status, envelope)
            IN /\ requested.type = "throw"
               /\ built.type = "return"
               /\ InstanceOf(built.value, "BrightError")
               /\ requested.value = built.value
               /\ ~response.body.json =>
                     /\ requested.value.message = response.statusText
                     /\ requested.value.code = Undefined
                     /\ requested.value.details = Undefined

\* C6, where the code meets it: the same for every non-success response
\* whose body does not decode to null.
C6_HoldsUnlessBodyIsNull ==
    \A c \in CallIds :
        (Done(c) /\ Answered(c) /\ ~calls[c].response.ok
            /\ (calls[c].response.body.json => DecodesToNonNull(calls[c].response))) =>
            LET response == calls[c].response
                requested == calls[c].requested
                envelope == IF response.body.json
                            THEN response.body.value
                            ELSE Obj(<<Prop(Lit("error"), response.statusText)>>)
                built == createBrightError(response.status, envelope)
            IN /\ requested.type = "throw"
               /\ built.type = "return"
               /\ InstanceOf(built.value, "BrightError")
               /\ requested.value = built.value
               /\ ~response.body.json =>
                     /\ requested.value.message = response.statusText
                     /\ requested.value.code = Undefined
                     /\ requested.value.details = Undefined

\* C7: for every non-success response whose body is no error envelope (it
\* does not decode, or decodes to something that is not an object with an
\* error string), request() raises a BrightError whose message is the
\* status text.
C7_MalformedBodyGivesStatusText ==
    \A c \in CallIds :
        (Done(c) /\ Answered(c) /\ ~calls[c].response.ok) =>
            LET response == calls[c].response
                requested == calls[c].requested
                malformed ==
                    \/ ~response.body.json
                    \/ response.body.value.t # "object"
                    \/ Get(response.body.value, Lit("error")).t # "string"
            IN malformed =>
                  /\ requested.type = "throw"
                  /\ InstanceOf(requested.value, "BrightError")
                  /\ requested.value.message = response.statusText

\* C8: for a successful response with status 204, request() returns
\* undefined and the body decoder is never invoked, whatever the operation;
\* for any other successful response it invokes the decoder once and ends
\* as the decoding does, returning the decoded body as it is.
C8_NoContentSkipsDecoding ==
    \A c \in CallIds :
        (Answered(c) /\ calls[c].response.ok) =>
            LET response == calls[c].response
                requested == calls[c].requested
            IN IF response.status = Num(204)
               THEN /\ calls[c].jsonCalls = 0
                    /\ Done(c)
                    /\ requested = Return(Undefined)
               ELSE /\ calls[c].jsonCalls = 1
                    /\ Done(c) =>
                          IF response.body.json
                          THEN requested = Return(response.body.value)
                          ELSE requested.type = "throw"

C8_Witness ==
    \E c \in CallIds :
        /\ Done(c)
        /\ calls[c].op = "getIngress"
        /\ Answered(c)
        /\ calls[c].response.status = Num(204)
        /\ calls[c].jsonCalls = 0
        /\ calls[c].outcome = Return(Undefined)

(***************************************************************************)
(* index.ts: search() and the query string it builds.                      *)
(***************************************************************************)
\* A JavaScript array.
Arr(items) == [t |-> "array", items |-> items]

\* params?.k
OptGet(params, k) == IF params = Undefined THEN Undefined ELSE Get(params, Lit(k))

\* Mutant: the order of an object entry is not looked at.
normalizeSortField_IgnoresOrder(sort) ==
    IF sort.t = "object" /\ HasProp(sort, Lit("field"))
    THEN Str(ToString(Get(sort, Lit("field"))))
    ELSE Str(ToString(sort))

\* normalizeSortField(sort)
normalizeSortField(sort) ==
    IF sort.t = "object" /\ HasProp(sort, Lit("field"))
    THEN IF Get(sort, Lit("order")) = Str(Lit("desc"))
         THEN Str(<<"-">> \o ToString(Get(sort, Lit("field"))))
         ELSE Str(ToString(Get(sort, Lit("field"))))
    ELSE Str(ToString(sort))

\* URLSearchParams: the name/value pairs in the order append() was called.
Param(name, value) == [name |-> name, value |-> value]

\* application/x-www-form-urlencoded, one symbol at a time: a space becomes
\* '+', the other symbols outside the unreserved set their percent escape.
FormEncodeSymbol(ch) ==
    CASE ch = " " -> <<"+">>
      [] ch = ":" -> <<"%", "3", "A">>
      [] ch = "<" -> <<"%", "3", "C">>
      [] ch = "=" -> <<"%", "3", "D">>
      [] ch = ">" -> <<"%", "3", "E">>
      [] ch = "^" -> <<"%", "5", "E">>
      [] ch = "[" -> <<"%", "5", "B">>
      [] ch = "]" -> <<"%", "5", "D">>
      [] OTHER -> <<ch>>

RECURSIVE FormEncode(_)
FormEncode(str) ==
    IF str = <<>> THEN <<>>
    ELSE FormEncodeSymbol(Head(str)) \o FormEncode(Tail(str))

\* URLSearchParams.prototype.toString, as `${searchParams}` calls it.
URLSearchParamsToString(params) ==
    Join([i \in 1..Len(params) |->
             FormEncode(params[i].name) \o <<"=">> \o FormEncode(params[i].value)],
         <<"&">>)

\* Mutant: the two parts are joined without .filter(Boolean).
FullQuery_KeepsEmpty(q, filterQuery) ==
    Str(Join(<<IF q = Undefined THEN <<>> ELSE q.s, filterQuery.s>>, <<" ">>))

\* [params?.q, filterQuery].filter(Boolean).join(' ')
FullQuery(q, filterQuery) ==
    LET kept == SelectSeq(<<q, filterQuery>>, ToBoolean)
    IN Str(Join([i \in 1..Len(kept) |-> kept[i].s], <<" ">>))

\* Mutant: the parameter is tested with '!== undefined'.
NumberParam_WhenDefined(params, k) ==
    IF OptGet(params, k) # Undefined
    THEN <<Param(Lit(k), NumberToString(OptGet(params, k).n))>>
    ELSE <<>>

\* if (params?.k) searchParams.append(k, params.k.toString())
NumberParam(params, k) ==
    IF ToBoolean(OptGet(params, k))
    THEN <<Param(Lit(k), NumberToString(OptGet(params, k).n))>>
    ELSE <<>>

\* if (params?.k) params.k.forEach(x => ...): the elements the loop visits.
ArrayItems(params, k) ==
    IF ToBoolean(OptGet(params, k)) THEN OptGet(params, k).items ELSE <<>>

\* searchParams.append('k[]', token), for each token in turn.
ArrayParam(k, tokens) ==
    [i \in 1..Len(tokens) |-> Param(<<k, "[", "]">>, tokens[i].s)]

StringOf(v) == Str(ToString(v))

\* search(indexId, params), up to its call of request(): the pairs appended
\* to searchParams, and the path and the options handed to request().
search(indexId, params) ==
    LET filterQuery == buildQueryFromFilters(OptGet(params, "filter"),
                                             OptGet(params, "range"))
        fullQuery == FullQuery(OptGet(params, "q"), filterQuery)
        sort == ArrayItems(params, "sort")
        retrieve == ArrayItems(params, "attributesToRetrieve")
        exclude == ArrayItems(params, "attributesToExclude")
        searchParams ==
            (IF ToBoolean(fullQuery) THEN <<Param(Lit("q"), fullQuery.s)>> ELSE <<>>)
                \o NumberParam(params, "offset")
                \o NumberParam(params, "limit")
                \o NumberParam(params, "page")
                \o ArrayParam("sort",
                              [i \in 1..Len(sort) |-> normalizeSortField(sort[i])])
                \o ArrayParam("attributesToRetrieve",
                              [i \in 1..Len(retrieve) |-> StringOf(retrieve[i])])
                \o ArrayParam("attributesToExclude",
                              [i \in 1..Len(exclude) |-> StringOf(exclude[i])])
    IN [ searchParams |-> searchParams,
         path |-> Lit("/indexes/") \o indexId \o <<"/", "searches", "?">>
                     \o URLSearchParamsToString(searchParams),
         options |-> Obj(<<Prop(Lit("method"), Str(Lit("POST")))>>) ]

(***************************************************************************)
(* The inputs search() is exercised on, and its specification.             *)
(***************************************************************************)
SearchQueries == {Undefined, Str(<<>>), Str(Lit("beer"))}

SearchFilters ==
    { Undefined,
      Obj(<<Prop(Lit("price"), Undefined)>>),
      Obj(<<Prop(Lit("name"), Str(Lit("water"))), Prop(Lit("price"), Num(0))>>) }

SearchRanges ==
    { Undefined,
      Obj(<<>>),
      Obj(<<Prop(Lit("price"),
                 Obj(<<Prop(Lit("lt"), Num(100)), Prop(Lit("gte"), Num(10))>>))>>) }

PageValues == {Undefined, Num(0), Num(20)}

SortEntry(f, order) == Obj(<<Prop(Lit("field"), Str(f)), Prop(Lit("order"), Str(Lit(order)))>>)

SortValues ==
    { Undefined,
      Arr(<<>>),
      Arr(<<Str(Lit("price"))>>),
      Arr(<<Str(<<"-", "price">>)>>),
      Arr(<<SortEntry(Lit("price"), "desc"), Str(Lit("name"))>>),
      Arr(<<SortEntry(Lit("name"), "asc"), Str(<<"-", "price">>),
            SortEntry(Lit("stock"), "desc")>>) }

AttributeValues ==
    { <<>>,
      << Prop(Lit("attributesToRetrieve"), Arr(<<Str(Lit("name")), Str(Lit("price"))>>)),
         Prop(Lit("attributesToExclude"), Arr(<<Str(Lit("stock"))>>)) >> }

\* The member k of a params object: left out when v is undefined.
Member(k, v) == IF v = Undefined THEN <<>> ELSE <<Prop(Lit(k), v)>>

SearchParamsValues ==
    {Undefined} \cup
    { Obj(Member("q", q) \o Member("filter", f) \o Member("range", r)
            \o Member("offset", o) \o Member("limit", l) \o Member("page", pg)
            \o Member("sort", st) \o a) :
        q \in SearchQueries, f \in SearchFilters, r \in SearchRanges,
        o \in PageValues, l \in PageValues, pg \in PageValues,
        st \in SortValues, a \in AttributeValues }

InitSearch ==
    /\ sParams \in SearchParamsValues
    /\ sRequest = NoResult
    /\ qFilter = NoResult /\ qRange = NoResult /\ qResult = NoResult
    /\ FieldIdle
    /\ ClassifyIdle
    /\ ClientIdle

Search ==
    /\ sParams # NoResult
    /\ sRequest = NoResult
    /\ sRequest' = search(Lit("products"), sParams)
    /\ UNCHANGED <<sParams, qFilter, qRange, qResult, fName, fValue, fBoost, fResult,
                   clsVars, reqVars>>

NextSearch == Search

SpecSearch == InitSearch /\ [][NextSearch]_vars

(***************************************************************************)
(* search(): claims                                                        *)
(***************************************************************************)
Searched == sRequest # NoResult
ParamsNamed(name) == SelectSeq(sRequest.searchParams, LAMBDA p : p.name = name)
EntriesOf(v) == IF v = Undefined THEN <<>> ELSE v.entries

\* The parts the q parameter is to be made of: the free text when there is
\* some, then a clause per filter entry with a value, then the range clauses.
ExpectedQueryParts ==
    LET q == OptGet(sParams, "q")
        given == SelectSeq(EntriesOf(OptGet(sParams, "filter")),
                           LAMBDA p : p.v # Undefined)
    IN (IF q \in {Undefined, Str(<<>>)} THEN <<>> ELSE <<q.s>>)
          \o [i \in 1..Len(given) |-> given[i].k \o <<":">> \o ToString(given[i].v)]
          \o AllEntryClauses(EntriesOf(OptGet(sParams, "range")))

\* C12: the q parameter search() sends is the free-text q, when present,
\* followed by the filter clauses and then the range clauses, consecutive
\* parts separated by exactly one space with none leading or trailing; when
\* q is absent or empty and filter and range give no clause, no q parameter
\* is sent at all.
C12_QueryIsTextThenFiltersThenRanges ==
    Searched =>
        /\ ExpectedQueryParts = <<>> => ParamsNamed(Lit("q")) = <<>>
        /\ ExpectedQueryParts # <<>> =>
              /\ ParamsNamed(Lit("q")) =
                    <<Param(Lit("q"), Join(ExpectedQueryParts, <<" ">>))>>
              /\ sRequest.searchParams[1].name = Lit("q")

C12_Witness ==
    /\ Searched
    /\ OptGet(sParams, "q") = Str(Lit("beer"))
    /\ Len(EntriesOf(OptGet(sParams, "filter"))) = 2
    /\ Len(EntriesOf(OptGet(sParams, "range"))) = 1
    /\ ParamsNamed(Lit("q")) =
          <<Param(Lit("q"), <<"beer", " ", "name", ":", "water", " ", "price", ":", "0",
                              " ", "price", ":", ">", "=", "1", "0",
                              " ", "price", ":", "<", "1", "0", "0">>)>>

\* The token a sort entry is to give.
SortToken(entry) ==
    IF entry.t = "string" THEN entry.s
    ELSE IF Get(entry, Lit("order")) = Str(Lit("desc"))
         THEN <<"-">> \o Get(entry, Lit("field")).s
         ELSE Get(entry, Lit("field")).s

SortEntries == IF OptGet(sParams, "sort") = Undefined THEN <<>>
               ELSE OptGet(sParams, "sort").items

\* C13: search() sends one sort[] value per entry of sort, in the entries'
\* order: a bare field name as itself, {field, order: 'desc'} as the name
\* with '-' ahead of it, {field, order: 'asc'} as the bare name; the object
\* {field: f, order: 'desc'} and the string '-f' give the same token.
C13_SortTokensInOrder ==
    /\ Searched =>
          ParamsNamed(<<"sort", "[", "]">>) =
              [i \in 1..Len(SortEntries) |->
                  Param(<<"sort", "[", "]">>, SortToken(SortEntries[i]))]
    /\ \A f \in FieldNames :
          /\ normalizeSortField(SortEntry(f, "desc")) = normalizeSortField(Str(<<"-">> \o f))
          /\ normalizeSortField(SortEntry(f, "asc")) = normalizeSortField(Str(f))
          /\ normalizeSortField(Str(f)) = Str(f)

C13_Witness ==
    /\ Searched
    /\ SortEntries = <<SortEntry(Lit("price"), "desc"), Str(Lit("name"))>>
    /\ ParamsNamed(<<"sort", "[", "]">>) =
          <<Param(<<"sort", "[", "]">>, <<"-", "price">>),
            Param(<<"sort", "[", "]">>, <<"name">>)>>

\* C23: search() sends each of offset, limit and page exactly when its
\* value is defined and not 0, as the number's decimal text and once; a
\* value of 0 is not sent, like an absent one, while a filter entry whose
\* value is 0 still has its clause field:0 in q.
C23_PaginationSentWhenNonZero ==
    Searched =>
        /\ \A k \in {"offset", "limit", "page"} :
              ParamsNamed(Lit(k)) =
                  IF OptGet(sParams, k) \in {Undefined, Num(0)}
                  THEN <<>>
                  ELSE <<Param(Lit(k), NumberToString(OptGet(sParams, k).n))>>
        /\ LET given == EntriesOf(OptGet(sParams, "filter"))
           IN \A i \in 1..Len(given) :
                 given[i].v = Num(0) =>
                    /\ ParamsNamed(Lit("q")) # <<>>
                    /\ \E j \in 1..Len(SplitOnSpace(ParamsNamed(Lit("q"))[1].value, <<>>)) :
                          SplitOnSpace(ParamsNamed(Lit("q"))[1].value, <<>>)[j]
                              = given[i].k \o <<":", "0">>

C23_Witness ==
    /\ Searched
    /\ OptGet(sParams, "offset") = Num(0)
    /\ OptGet(sParams, "limit") = Num(20)
    /\ OptGet(sParams, "page") = Undefined
    /\ OptGet(sParams, "q") = Undefined
    /\ OptGet(sParams, "range") = Undefined
    /\ Len(EntriesOf(OptGet(sParams, "filter"))) = 2
    /\ OptGet(sParams, "sort") = Undefined
    /\ ~HasProp(sParams, Lit("attributesToRetrieve"))
    /\ sRequest.searchParams =
          << Param(Lit("q"), <<"name", ":", "water", " ", "price", ":", "0">>),
             Param(Lit("limit"), <<"2", "0">>) >>

(***************************************************************************)
(* index.ts: what each operation of the client passes to request(), and    *)
(* the handle index(indexId) returns.                                      *)
(***************************************************************************)
\* JSON.stringify(v), for a v that is not undefined: the text, one symbol
\* per token (no string drawn holds a character JSON escapes).  A member
\* whose value is undefined is left out, an undefined element reads null.
RECURSIVE JSONText(_)
JSONText(v) ==
    CASE v.t = "string" -> <<"\"">> \o v.s \o <<"\"">>
      [] v.t = "number" -> NumberToString(v.n)
      [] v.t = "boolean" -> IF v.b THEN <<"true">> ELSE <<"false">>
      [] v.t \in {"null", "undefined"} -> <<"null">>
      [] v.t = "array" ->
            <<"[">> \o Join([i \in 1..Len(v.items) |-> JSONText(v.items[i])], <<",">>)
                \o <<"]">>
      [] v.t = "object" ->
            LET kept == SelectSeq(v.entries, LAMBDA p : p.v # Undefined)
            IN <<"{">> \o Join([i \in 1..Len(kept) |->
                                   <<"\"">> \o kept[i].k \o <<"\"", ":">>
                                       \o JSONText(kept[i].v)],
                               <<",">>)
                   \o <<"}">>

JSONStringify(v) == IF v = Undefined THEN Undefined ELSE Str(JSONText(v))

\* The i-th argument of a call, undefined when it was not passed.
Arg(args, i) == IF i <= Len(args) THEN args[i] ELSE Undefined

Method(m) == Prop(Lit("method"), Str(Lit(m)))
Body(text) == Prop(Lit("body"), text)
Req(path, options) == [path |-> path, options |-> options]

\* The public operations of BrightClient that call request(), and request()
\* itself.
Operations ==
    { "createIndex", "updateIndex", "deleteIndex", "indexExists",
      "addDocuments", "updateDocument", "deleteDocument", "deleteDocuments",
      "search", "listIngresses", "createIngress", "getIngress", "ingressExists",
      "updateIngress", "deleteIngress" }

\* The path and the options operation op hands to request() when called
\* with the arguments args.
OperationRequest(op, args) ==
    LET a1 == Arg(args, 1)
        a2 == Arg(args, 2)
        a3 == Arg(args, 3)
        index == IndexPath(ToString(a1))
        document == index \o Lit("/documents/") \o ToString(a2)
        ingress == IngressPath(ToString(a1), ToString(a2))
    IN CASE op = "request" -> Req(a1.s, a2)
         [] op = "createIndex" ->
               LET params == <<Param(Lit("id"), ToString(a1))>>
                                \o (IF ToBoolean(a2)
                                    THEN <<Param(Lit("primaryKey"), ToString(a2))>>
                                    ELSE <<>>)
               IN Req(Lit("/indexes?") \o URLSearchParamsToString(params),
                      Obj(<<Method("POST")>>))
         [] op = "updateIndex" ->
               Req(index, Obj(<<Method("PATCH"), Body(JSONStringify(a2))>>))
         [] op = "addDocuments" ->
               LET body == Str(Join([i \in 1..Len(a2.items) |-> JSONText(a2.items[i])],
                                    <<"\n">>))
                   format == IF ToBoolean(OptGet(a3, "format"))
                             THEN OptGet(a3, "format") ELSE Str(Lit("jsoneachrow"))
                   params == <<Param(Lit("format"), ToString(format))>>
                                \o (IF ToBoolean(OptGet(a3, "primaryKey"))
                                    THEN <<Param(Lit("primaryKey"),
                                                 ToString(OptGet(a3, "primaryKey")))>>
                                    ELSE <<>>)
               IN Req(index \o Lit("/documents?") \o URLSearchParamsToString(params),
                      Obj(<<Method("POST"), Body(body)>>))
         [] op = "updateDocument" ->
               Req(document, Obj(<<Method("PATCH"), Body(JSONStringify(a3))>>))
         [] op = "deleteDocument" -> Req(document, Obj(<<Method("DELETE")>>))
         [] op = "deleteDocuments" ->
               LET ids == ArrayItems(a2, "ids")
                   params == ArrayParam("ids", [i \in 1..Len(ids) |-> StringOf(ids[i])])
                                \o (IF ToBoolean(Get(a2, Lit("filter")))
                                    THEN <<Param(Lit("filter"),
                                                 ToString(Get(a2, Lit("filter"))))>>
                                    ELSE <<>>)
               IN Req(index \o Lit("/documents?") \o URLSearchParamsToString(params),
                      Obj(<<Method("DELETE")>>))
         [] op = "search" ->
               LET built == search(ToString(a1), a2)
               IN Req(built.path, built.options)
         [] op = "listIngresses" -> Req(index \o Lit("/ingresses"), Undefined)
         [] op = "createIngress" ->
               Req(index \o Lit("/ingresses"),
                   Obj(<<Method("POST"), Body(JSONStringify(a2))>>))
         [] op = "updateIngress" ->
               Req(ingress,
                   Obj(<<Method("PATCH"),
                         Body(JSONStringify(Obj(<<Prop(Lit("state"), a3)>>)))>>))
         [] op = "deleteIngress" -> Req(ingress, Obj(<<Method("DELETE")>>))
         [] op \in Ops -> Req(RequestPath(op, ToString(a1), ToString(a2)),
                              RequestOptions(op))

\* The members of an index handle that are functions.
HandleMembers ==
    { "update", "delete", "addDocuments", "updateDocument", "deleteDocument",
      "deleteDocuments", "search", "listIngresses", "createIngress", "getIngress",
      "ingressExists", "updateIngress", "deleteIngress" }

\* Mutant: the handle's getIngress calls this.ingressExists.
index_GetIngressProbes(indexId) ==
    [ id |-> indexId,
      indexId |-> indexId,
      forwards |-> [m \in HandleMembers |->
                    CASE m = "update" -> "updateIndex"
                      [] m = "delete" -> "deleteIndex"
                      [] m = "getIngress" -> "ingressExists"
                      [] OTHER -> m] ]

\* index(indexId): the object returned.  id is its id member, indexId the
\* parameter its arrow functions close over, and forwards[m] the operation
\* of the client member m calls, with indexId ahead of m's own arguments.
index(indexId) ==
    [ id |-> indexId,
      indexId |-> indexId,
      forwards |-> [m \in HandleMembers |->
                    CASE m = "update" -> "updateIndex"
                      [] m = "delete" -> "deleteIndex"
                      [] OTHER -> m] ]

(***************************************************************************)
(* The inputs the operations are exercised on, and their specification:    *)
(* one call at a time, made on the client or through a handle.             *)
(***************************************************************************)
IndexIds == {Lit("products"), Lit("users")}

ADocument(id, name) == Obj(<<Prop(Lit("id"), Num(id)), Prop(Lit("name"), Str(Lit(name)))>>)

\* The arguments an operation, or the handle member of that name, is called
\* with after the index id.
Arguments(name) ==
    CASE name \in {"deleteIndex", "delete", "indexExists", "listIngresses"} -> {<<>>}
      [] name = "createIndex" -> {<<>>, <<Str(Lit("sku"))>>}
      [] name \in {"updateIndex", "update"} ->
            {<<Obj(<<Prop(Lit("primaryKey"), Str(Lit("sku")))>>)>>}
      [] name = "addDocuments" ->
            { <<Arr(<<ADocument(1, "water"), ADocument(2, "beer")>>)>>,
              <<Arr(<<ADocument(1, "water")>>),
                Obj(<<Prop(Lit("primaryKey"), Str(Lit("id")))>>)>> }
      [] name = "updateDocument" ->
            {<<Str(<<"7">>), Obj(<<Prop(Lit("price"), Num(10))>>)>>}
      [] name = "deleteDocument" -> {<<Str(<<"7">>)>>}
      [] name = "deleteDocuments" ->
            { <<Obj(<<Prop(Lit("ids"), Arr(<<Str(<<"7">>), Str(<<"8">>)>>))>>)>>,
              <<Obj(<<Prop(Lit("filter"), Str(<<"price", ":", ">", "1", "0">>))>>)>> }
      [] name = "search" ->
            { <<>>,
              <<Obj(<<Prop(Lit("q"), Str(Lit("beer"))), Prop(Lit("limit"), Num(20)),
                      Prop(Lit("sort"), Arr(<<Str(<<"-", "price">>)>>))>>)>> }
      [] name = "createIngress" ->
            {<<Obj(<<Prop(Lit("id"), Str(Lit("pg"))),
                     Prop(Lit("type"), Str(Lit("postgres")))>>)>>}
      [] name \in {"getIngress", "ingressExists", "deleteIngress"} -> {<<Str(Lit("pg"))>>}
      [] name = "updateIngress" -> {<<Str(Lit("pg")), Str(Lit("paused"))>>}

\* The options request() is handed when called with headers of the caller's.
RequestInits ==
    { Obj(<<Method("GET"), Prop(Lit("headers"), Obj(h))>>) :
        h \in { <<>>,
                <<Prop(Lit("Content-Type"), Str(Lit("text/plain")))>>,
                <<Prop(Lit("Authorization"), Str(Lit("Basic abc")))>>,
                <<Prop(Lit("X-Request-Id"), Str(Lit("r1")))>>,
                <<Prop(Lit("Authorization"), Str(Lit("Basic abc"))),
                  Prop(Lit("Content-Type"), Str(Lit("text/plain")))>> } }

\* The clients: the ones of ClientOptions, and one given an empty API key.
OperationClientOptions ==
    ClientOptions \cup
    { [baseUrl |-> Str(<<"http://bright:3000">>), apiKey |-> Str(<<>>), fetch |-> Undefined] }

\* The responses of Responses, a list of ingresses, and error responses
\* whose code is of another category than their status.
OperationResponses ==
    Responses \cup
    { Response(200, "OK",
               Json(Obj(<<Prop(Lit("ingresses"),
                               Arr(<<Obj(<<Prop(Lit("id"), Str(Lit("pg")))>>)>>))>>))),
      Response(500, "Internal Server Error", ErrorBody("index not found", "INDEX_NOT_FOUND")),
      Response(403, "Forbidden", ErrorBody("no such document", "DOCUMENT_NOT_FOUND")),
      Response(404, "Not Found", ErrorBody("apply failed", "INTERNAL_ERROR")),
      Response(404, "Not Found", ErrorBody("forbidden", "INSUFFICIENT_PERMISSIONS")) }

\* The one call slot this specification uses.
TheCall == 1

InitOperations ==
    /\ client \in {BrightClient(o) : o \in OperationClientOptions}
    /\ calls = [c \in CallIds |-> IdleCall]
    /\ handle = NoResult
    /\ ClassifyIdle
    /\ QueryIdle

\* index(indexId) is called.
Index(indexId) ==
    /\ handle = NoResult
    /\ handle' = index(Str(indexId))
    /\ UNCHANGED <<client, calls, clsVars, qVars>>

\* Operation op is called with args and runs to 'await this.fetchFn(...)'.
Invoke(c, op, args, member, passed) ==
    /\ calls[c].pc = "idle"
    /\ LET req == OperationRequest(op, args)
       IN calls' = [calls EXCEPT ![c] =
             [ @ EXCEPT !.pc = "fetch", !.op = op, !.args = args,
                        !.member = member, !.passed = passed,
                        !.fetchArgs = FetchArgs(client, req.path, req.options),
                        !.fetchCalls = @ + 1 ]]
    /\ UNCHANGED <<client, handle, clsVars, qVars>>

\* Member m of the handle is called with the arguments rest.
InvokeMember(c, m, rest) ==
    /\ handle # NoResult
    /\ Invoke(c, handle.forwards[m], <<handle.indexId>> \o rest, m, rest)

NextOperations ==
    \/ \E i \in IndexIds : Index(i)
    \/ \E op \in Operations, i \in IndexIds : \E rest \in Arguments(op) :
          Invoke(TheCall, op, <<Str(i)>> \o rest, "none", <<>>)
    \/ \E m \in HandleMembers : \E rest \in Arguments(m) : InvokeMember(TheCall, m, rest)
    \/ \E init \in RequestInits :
          Invoke(TheCall, "request", <<Str(Lit("/health")), init>>, "none", <<>>)
    \/ \E response \in OperationResponses : FetchResolve(TheCall, response)
    \/ FetchReject(TheCall)
    \/ ErrorBodySettle(TheCall)
    \/ BodySettle(TheCall)

SpecOperations == InitOperations /\ [][NextOperations]_vars

(***************************************************************************)
(* The operations and the handle: claims                                   *)
(***************************************************************************)
SentHeaders(c) == Get(calls[c].fetchArgs.init, Lit("headers"))

\* The headers the caller of request() supplied: none for the public
\* operations, which pass no headers.
OwnHeaders(c) ==
    IF calls[c].op = "request" /\ HasProp(Arg(calls[c].args, 2), Lit("headers"))
    THEN Get(Arg(calls[c].args, 2), Lit("headers"))
    ELSE Obj(<<>>)

\* An API key was configured: the client was given a key that is not the
\* empty string.
KeyConfigured == client.apiKey \notin {Undefined, Str(<<>>)}

HeaderOnce(h, name) == Len(SelectSeq(h.entries, LAMBDA p : p.k = name)) = 1

\* C15: every request carries Content-Type: application/json and, exactly
\* when an API key was configured, Authorization: Bearer <apiKey>, unless
\* the caller of request() supplied a header of that name, which then is
\* the one sent; the caller's other headers are sent as given.
C15_DefaultHeadersUnlessSupplied ==
    \A c \in CallIds :
        Invoked(c) =>
            LET sent == SentHeaders(c)
                own == OwnHeaders(c)
                contentType == Lit("Content-Type")
                authorization == Lit("Authorization")
            IN /\ HeaderOnce(sent, contentType)
               /\ Get(sent, contentType) =
                     IF HasProp(own, contentType) THEN Get(own, contentType)
                     ELSE Str(Lit("application/json"))
               /\ HasProp(sent, authorization)
                     <=> (KeyConfigured \/ HasProp(own, authorization))
               /\ HasProp(sent, authorization) =>
                     /\ HeaderOnce(sent, authorization)
                     /\ Get(sent, authorization) =
                           IF HasProp(own, authorization) THEN Get(own, authorization)
                           ELSE Str(<<"Bearer ">> \o client.apiKey.s)
               /\ \A i \in 1..Len(own.entries) :
                     Get(sent, own.entries[i].k) = own.entries[i].v

C15_Witness ==
    /\ Invoked(TheCall)
    /\ calls[TheCall].op = "request"
    /\ client.apiKey = Str(Lit("secret"))
    /\ OwnHeaders(TheCall) = Obj(<<Prop(Lit("Authorization"), Str(Lit("Basic abc")))>>)
    /\ SentHeaders(TheCall) =
          Obj(<<Prop(Lit("Content-Type"), Str(Lit("application/json"))),
                Prop(Lit("Authorization"), Str(Lit("Basic abc")))>>)

\* C16: a call of an operation has issued one transport request from the
\* moment it is made, and never a second one, whether its request is still
\* awaited, returned or failed; and a call that has ended, with a value or
\* with an error, does nothing further.
C16_OneRequestPerCall ==
    /\ [](\A c \in CallIds : calls[c].fetchCalls = IF Invoked(c) THEN 1 ELSE 0)
    /\ [][\A c \in CallIds : Done(c) => calls'[c] = calls[c]]_vars

C16_Witness ==
    /\ Done(TheCall)
    /\ calls[TheCall].op = "ingressExists"
    /\ calls[TheCall].outcome.type = "throw"
    /\ calls[TheCall].fetchCalls = 1

ThroughHandle(c) == calls[c].member # "none"

\* The operation of the client a handle member stands for.
Corresponding(m) ==
    CASE m = "update" -> "updateIndex"
      [] m = "delete" -> "deleteIndex"
      [] OTHER -> m

\* C19: the id of the handle index(indexId) returned is indexId as long as
\* the handle exists, and a call of a handle member sends the request, and
\* ends with the outcome, of the client's corresponding operation called
\* with indexId ahead of the member's own arguments.
C19_HandleForwardsWithIndexId ==
    /\ [][handle # NoResult => handle' = handle]_vars
    /\ [](handle # NoResult => handle.id = handle.indexId)
    /\ [](\A c \in CallIds :
             ThroughHandle(c) =>
                 LET op == Corresponding(calls[c].member)
                     args == <<handle.id>> \o calls[c].passed
                     req == OperationRequest(op, args)
                 IN /\ handle # NoResult
                    /\ calls[c].fetchArgs = FetchArgs(client, req.path, req.options)
                    /\ Done(c) => calls[c].outcome = OpResult(op, calls[c].requested))

C19_Witness ==
    /\ Done(TheCall)
    /\ handle # NoResult /\ handle.id = Str(Lit("users"))
    /\ calls[TheCall].member = "delete"
    /\ calls[TheCall].fetchArgs.url.s = client.baseUrl.s \o <<"/indexes/", "users">>
    /\ Get(calls[TheCall].fetchArgs.init, Lit("method")) = Str(Lit("DELETE"))
    /\ calls[TheCall].outcome = Return(Undefined)

NotFoundCodes == {"INDEX_NOT_FOUND", "DOCUMENT_NOT_FOUND"}

\* The code of the envelope an error response carried, undefined when its
\* body did not decode to an object.
ResponseCode(c) ==
    IF calls[c].response.body.json /\ calls[c].response.body.value.t = "object"
    THEN Get(calls[c].response.body.value, Lit("code"))
    ELSE Undefined

\* C21: an exists probe answers by the category of the classified error,
\* not by the status of the response: when the envelope's code is
\* INDEX_NOT_FOUND or DOCUMENT_NOT_FOUND the probe returns false under every
\* status code, and when it is a defined code of another category the probe
\* raises the error classified by that code, also under status 404.  The
\* second conjunct goes through every status code and every defined code,
\* once, before any call is made.
C21_ProbeFollowsCategory ==
    /\ \A c \in CallIds :
          (Done(c) /\ IsExists(c) /\ Answered(c) /\ ~calls[c].response.ok
              /\ IsDefinedCode(ResponseCode(c))) =>
             IF DefinedCodeOf(ResponseCode(c)) \in NotFoundCodes
             THEN calls[c].outcome = Return(Bool(FALSE))
             ELSE /\ calls[c].outcome.type = "throw"
                  /\ calls[c].outcome = calls[c].requested
                  /\ calls[c].outcome.value.code = ResponseCode(c)
                  /\ ~NotFoundCategory(calls[c].outcome.value)
    /\ (\A c \in CallIds : ~Invoked(c)) =>
          \A s \in StatusCodes : \A code \in ErrorCode :
              LET response == Response(s, "status text", ErrorBody("message", code))
              IN ExistsResult(ThrowClassified(response)) =
                    IF code \in NotFoundCodes THEN Return(Bool(FALSE))
                    ELSE ThrowClassified(response)

C21_Witness ==
    /\ Done(TheCall)
    /\ calls[TheCall].op = "indexExists"
    /\ Answered(TheCall) /\ calls[TheCall].response.status = Num(404)
    /\ ResponseCode(TheCall) = Str(Lit("INTERNAL_ERROR"))
    /\ calls[TheCall].outcome.type = "throw"
    /\ calls[TheCall].outcome.value.name = "InternalError"

(***************************************************************************)
(* Concurrent calls on one client: claims                                  *)
(***************************************************************************)
SameCall(c, d) == calls[c].op = calls[d].op /\ calls[c].args = calls[d].args
SameExchange(c, d) == SameCall(c, d) /\ calls[c].response = calls[d].response

\* C17: in every interleaving of the calls on one client, the client's
\* baseUrl, apiKey and fetchFn stay what the constructor made them, a step of
\* one call leaves every other call as it was, and what a call sends and how
\* it ends are decided by its own operation and arguments and by the
\* response to its own request: two calls with the same of these send the
\* same request and end the same way, whatever came between them.
C17_CallsDoNotInterfere ==
    /\ [][ /\ client' = client
           /\ \A c \in CallIds :
                 calls'[c] # calls[c] => \A d \in CallIds \ {c} : calls'[d] = calls[d]
         ]_vars
    /\ [](\A c, d \in CallIds :
             /\ (Invoked(c) /\ Invoked(d) /\ SameCall(c, d))
                    => calls[c].fetchArgs = calls[d].fetchArgs
             /\ (Done(c) /\ Done(d) /\ SameExchange(c, d))
                    => calls[c].outcome = calls[d].outcome)

C17_Witness ==
    /\ Done(1) /\ Done(2)
    /\ calls[1].op = "indexExists" /\ calls[2].op = "indexExists"
    /\ Answered(1) /\ calls[1].response.status = Num(404)
    /\ Answered(2) /\ calls[2].response.status = Num(200)
    /\ calls[1].outcome = Return(Bool(FALSE))
    /\ calls[2].outcome = Return(Bool(TRUE))

====
